---- MODULE Spec2Model ----
(***************************************************************************)
(* LoRA.ipynb: the notebook as one linear script.  The cells run top to    *)
(* bottom; every library call is a step that is entered (Call), and then   *)
(* either returns with its effect or raises.                               *)
(***************************************************************************)
EXTENDS Integers, Sequences, FiniteSets, TLC

\* ------------------------------------------------------------------ bounds
\* Largest number of epochs a config entry asks for (the notebook's entry: 1).
MaxEpochs == 2
\* Number of examples of a dataset (cats_vs_dogs has about 23 thousand).
MaxExamples == 3
\* Encoder layers of the base model (the ViT-base checkpoint has 12).
NumLayers == 1

\* ------------------------------------------------------- program constants
\* LoraConfig(r=16)
LoraRank == 16
\* train_test_split(test_size = 0.1), as the fraction TestSizeNum / TestSizeDen
TestSizeNum == 1
TestSizeDen == 10
\* hidden size of "google/vit-base-patch16-224-in21k"
Hidden == 768

\* The keys a config may hold, in insertion order, and each key's "path".
ConfigKeys == <<"model1", "model2">>
PathOf(k) == <<"./lora-model1", "./lora-model2">>[k]
Paths == {PathOf(k) : k \in 1..Len(ConfigKeys)}
\* Class names a dataset's label feature may list.
Names == {"cat", "dog"}
model_checkpoint == "google/vit-base-patch16-224-in21k"

VARIABLES
    pc,         \* [stmt, k, phase]: the statement the script is at, its loop index
    nEntries,   \* number of entries of config
    data,       \* k -> the objects of the data cells: dataset, splits, mappings
    split0,     \* k -> the splits as split_dataset returned them (history)
    config,     \* the config dict, as the sequence of its values
    log,        \* the calls that have returned, in order (history)
    attempts,   \* loads from a config path: [k, what, written] (history)
    active,     \* the calls in progress
    failed,     \* an exception has propagated out of the script
    image_processor,     \* the global image_processor
    training_arguments,  \* the one TrainingArguments object
    model,      \* the model object of the training cell (base, then LoRA)
    trainer,    \* the Trainer of the current config entry
    local,      \* build_inference_model's local model
    disk,       \* path -> the directory written there
    reports,    \* what print_trainable_parameters printed
    predictions \* what the inference cell printed

ctl == <<pc, log, attempts, active, failed>>
datavars == <<nEntries, data, split0>>
trainvars == <<training_arguments, model, trainer, disk, reports>>
infvars == <<image_processor, local, predictions>>
vars == <<pc, nEntries, data, split0, config, log, attempts, active, failed,
          image_processor, training_arguments, model, trainer, local, disk,
          reports, predictions>>

\* ------------------------------------------------------------------ helpers
Range(f) == {f[x] : x \in DOMAIN f}
InjectiveSeqs(S, n) == {s \in [1..n -> S] : \A i, j \in 1..n : s[i] = s[j] => i = j}
\* what a label feature's names can be: ClassLabel rejects duplicated names
NameLists == UNION {InjectiveSeqs(Names, n) : n \in 1..Cardinality(Names)}
CeilDiv(a, b) == (a + b - 1) \div b

EmptyMap == [x \in {} |-> 0]
NoDataset == [rows |-> {}, label_column |-> "", names |-> <<>>, transform |-> ""]
NoData == [dataset |-> NoDataset, train |-> NoDataset, test |-> NoDataset,
           label2id |-> EmptyMap, id2label |-> EmptyMap]
NoRef == [ds |-> 0, part |-> ""]
NoProcessor == [source |-> ""]
NoModel == [params |-> EmptyMap, modules |-> {}, label2id |-> EmptyMap,
            id2label |-> EmptyMap, peft |-> FALSE]
NoCheckpoint == [weights |-> EmptyMap, written_by |-> 0]
NoTrainer == [train_dataset |-> NoRef, eval_dataset |-> NoRef, processor |-> NoProcessor,
              epoch |-> 0, best_model_checkpoint |-> NoCheckpoint, evaluated |-> <<>>]
NoDir == [files |-> {}, weights |-> EmptyMap, processor |-> NoProcessor]

RECURSIVE SumOver(_, _)
SumOver(S, f) ==
    IF S = {} THEN 0
    ELSE LET x == CHOOSE y \in S : TRUE IN f[x] + SumOver(S \ {x}, f)

\* ------------------------------------------------------------ pure functions
\* create_label_mappings: the loop over enumerate(names), one assignment each
RECURSIVE LabelLoop(_, _, _)
LabelLoop(names, i, maps) ==
    IF i > Len(names) THEN maps
    ELSE LET label == names[i]
             l2i == [x \in DOMAIN maps.label2id \cup {label} |->
                       IF x = label THEN i - 1 ELSE maps.label2id[x]]
             i2l == [x \in DOMAIN maps.id2label \cup {i - 1} |->
                       IF x = i - 1 THEN label ELSE maps.id2label[x]]
         IN LabelLoop(names, i + 1, [label2id |-> l2i, id2label |-> i2l])

\* enumerate(names, 1): the identifiers start at 1
create_label_mappings_from_one(dataset) ==
    [label2id |-> [x \in Range(dataset.names) |->
                     CHOOSE i \in 1..Len(dataset.names) : dataset.names[i] = x],
     id2label |-> [i \in 1..Len(dataset.names) |-> dataset.names[i]]]

create_label_mappings(dataset) ==
    LabelLoop(dataset.names, 1, [label2id |-> EmptyMap, id2label |-> EmptyMap])

\* train_test_split(test_size = 0.1) on a shuffled order perm of the rows:
\* n_test = ceil(0.1 * n), test = perm[:n_test], train = perm[n_test:]
NTest(n) == CeilDiv(TestSizeNum * n, TestSizeDen)
\* train = perm[n_test - 1:]: the slices share a row
TrainIndicesOverlap(perm) == {perm[i] : i \in NTest(Len(perm))..Len(perm)}
TrainIndices(perm) == {perm[i] : i \in (NTest(Len(perm)) + 1)..Len(perm)}
TestIndices(perm) == {perm[i] : i \in 1..NTest(Len(perm))}
split_dataset(dataset, perm) ==
    [train |-> [dataset EXCEPT !.rows = TrainIndices(perm)],
     test  |-> [dataset EXCEPT !.rows = TestIndices(perm)]]

\* ---------------------------------------------------------------- the models
\* The linear modules of ViTForImageClassification: per encoder layer the
\* attention projections and the output dense layer, and the classifier head.
LinearModules(num_labels) ==
    {[layer |-> l, name |-> m, in_features |-> Hidden, out_features |-> Hidden] :
        l \in 1..NumLayers, m \in {"query", "key", "value", "dense"}}
    \cup {[layer |-> 0, name |-> "classifier", in_features |-> Hidden,
           out_features |-> num_labels]}

ModuleAt(modules, key) == CHOOSE m \in modules : m.layer = key[1] /\ m.name = key[2]
\* the value a parameter of the base model is loaded with: the checkpoint's,
\* or for the head, which the checkpoint lacks, a fresh initialisation
InitialValue(key) ==
    IF key[2] = "classifier" THEN "random_init" ELSE model_checkpoint

\* get_base_model: AutoModelForImageClassification.from_pretrained(model_checkpoint,
\* label2id, id2label): the encoder comes from the checkpoint, the head (one output
\* per label) is newly initialised; every parameter requires grad
BaseShape(modules, key) ==
    IF key[2] = "embeddings" THEN <<Hidden, Hidden>>
    ELSE LET m == ModuleAt(modules, key)
         IN IF key[3] = "weight" THEN <<m.out_features, m.in_features>>
            ELSE <<m.out_features>>

get_base_model(label2id, id2label) ==
    LET modules == LinearModules(Cardinality(DOMAIN id2label))
        keys == {<<m.layer, m.name, t>> : m \in modules, t \in {"weight", "bias"}}
                \cup {<<0, "embeddings", "weight">>}
    IN [params |-> [key \in keys |->
                      [shape |-> BaseShape(modules, key),
                       requires_grad |-> TRUE,
                       value |-> InitialValue(key)]],
        modules |-> modules, label2id |-> label2id, id2label |-> id2label,
        peft |-> FALSE]

\* LoraConfig(r=16, lora_alpha=16, target_modules=["query", "value"],
\*            lora_dropout=0.1, bias="none", modules_to_save=["classifier"])
lora_config ==
    [r |-> LoraRank, target_modules |-> {"query", "value"}, bias |-> "none",
     modules_to_save |-> {"classifier"}]

IsLoraKey(key) == key[3] \in {"lora_A", "lora_B"}
IsSavedModuleKey(key) == key[3] \in {"modules_to_save.weight", "modules_to_save.bias"}
\* get_peft_model_state_dict: the keys an adapter checkpoint holds
IsAdapterKey(key) == IsLoraKey(key) \/ IsSavedModuleKey(key)

\* both factors laid out as the frozen weight is, out x in
LoraShapeTransposed(m, tensor, r) ==
    IF tensor = "lora_A" THEN <<m.in_features, r>> ELSE <<r, m.out_features>>

\* the two factors of a targeted layer: lora_A is r x in, lora_B is out x r
LoraShape(m, tensor, r) ==
    IF tensor = "lora_A" THEN <<r, m.in_features>> ELSE <<m.out_features, r>>

\* a wrapper that leaves requires_grad as it finds it
KeepRequiresGrad(p) == p

\* with bias="none" every parameter that is not an adapter's is frozen
Freeze(p) == [p EXCEPT !.requires_grad = FALSE]

\* The PEFT wrapper of a base model: the base parameters frozen, two low-rank
\* factors on every targeted module, a copy of every module of modules_to_save.
\* The adapter's own parameters are trainable when `trainable`.
InjectAdapter(m, cfg, trainable) ==
    LET targeted == {x \in m.modules : x.name \in cfg.target_modules}
        saved == {x \in m.modules : x.name \in cfg.modules_to_save}
        loraKeys == {<<x.layer, x.name, t>> : x \in targeted, t \in {"lora_A", "lora_B"}}
        savedKeys == {<<x.layer, x.name, t>> : x \in saved,
                       t \in {"modules_to_save.weight", "modules_to_save.bias"}}
        Original(key) == <<key[1], key[2],
                           IF key[3] = "modules_to_save.weight" THEN "weight" ELSE "bias">>
    IN [m EXCEPT
          !.peft = TRUE,
          !.params = [key \in DOMAIN m.params \cup loraKeys \cup savedKeys |->
             IF key \in loraKeys
               THEN [shape |-> LoraShape(ModuleAt(m.modules, key), key[3], cfg.r),
                     requires_grad |-> trainable,
                     value |-> "lora_init"]
             ELSE IF key \in savedKeys
               THEN [m.params[Original(key)] EXCEPT !.requires_grad = trainable]
             ELSE Freeze(m.params[key])]]

get_peft_model(m, cfg) == InjectAdapter(m, cfg, TRUE)

\* print_trainable_parameters
Numel(shape) == IF Len(shape) = 1 THEN shape[1] ELSE shape[1] * shape[2]
\* trainable += p.numel() without the requires_grad test
print_parameters_ignoring_grad(m, label) ==
    LET keys == DOMAIN m.params
        size == [key \in keys |-> Numel(m.params[key].shape)]
    IN [label |-> label,
        parameters |-> SumOver(keys, size),
        trainable |-> SumOver(keys, size)]

print_trainable_parameters(m, label) ==
    LET keys == DOMAIN m.params
        size == [key \in keys |-> Numel(m.params[key].shape)]
    IN [label |-> label,
        parameters |-> SumOver(keys, size),
        trainable |-> SumOver({key \in keys : m.params[key].requires_grad}, size)]

\* an optimizer built over model.parameters() without the requires_grad filter
OptimizeAll(params) ==
    [key \in DOMAIN params |->
        [params[key] EXCEPT !.value = "trained"]]

\* one pass of the optimizer: the parameters that require grad move
Optimize(params) ==
    [key \in DOMAIN params |->
        IF params[key].requires_grad
        THEN [params[key] EXCEPT !.value = "trained"]
        ELSE params[key]]

\* the state dict of the whole model, as a model that is not a PeftModel saves
FullStateDict(m) ==
    [key \in DOMAIN m.params |->
        [shape |-> m.params[key].shape, value |-> m.params[key].value]]

\* the adapter's state dict: what PeftModel.save_pretrained writes
AdapterStateDict(m) ==
    [key \in {x \in DOMAIN m.params : IsAdapterKey(x)} |->
        [shape |-> m.params[key].shape, value |-> m.params[key].value]]

\* loading a state dict into a model: the values of the keys it holds
LoadStateDict(params, state) ==
    [key \in DOMAIN params |->
        IF key \in DOMAIN state
        THEN [params[key] EXCEPT !.value = state[key].value]
        ELSE params[key]]

\* Trainer._save with a PEFT model and tokenizer=image_processor
SavedFiles == {"adapter_model.safetensors", "adapter_config.json",
               "preprocessor_config.json", "training_args.bin"}
save_model(m, processor) ==
    [files |-> SavedFiles, weights |-> AdapterStateDict(m), processor |-> processor]

\* PeftModel.from_pretrained(model, path): inference mode, nothing trainable
PeftFromPretrained(m, dir) ==
    LET wrapped == InjectAdapter(m, lora_config, FALSE)
    IN [wrapped EXCEPT !.params = LoadStateDict(@, dir.weights)]

Written(path) == "adapter_config.json" \in disk[path].files
Deref(ref) == data[ref.ds][ref.part]

\* ------------------------------------------------------------ control flow
Stmt(s, k) == [stmt |-> s, k |-> k, phase |-> "at"]
At(s) == pc.stmt = s /\ pc.phase = "in"
Goto(s, k) == pc' = Stmt(s, k)
Event(s) == [k |-> pc.k, call |-> s]

\* a call that returns without leaving the set of calls in progress
ReturnStillActive(s) ==
    /\ log' = Append(log, Event(s))
    /\ UNCHANGED <<active, attempts, failed>>

\* The call returns: it is over, and the script goes on to its next statement.
Return(s) ==
    /\ log' = Append(log, Event(s))
    /\ active' = active \ {Event(s)}
    /\ UNCHANGED <<attempts, failed>>

\* the statements that load from a config entry's path
PathLoads == {"PeftModel.from_pretrained", "AutoImageProcessor.from_pretrained"}

\* A statement is entered: the call is in progress until it returns or raises.
Call ==
    /\ pc.phase = "at" /\ pc.stmt # "done"
    /\ pc' = [pc EXCEPT !.phase = "in"]
    /\ active' = active \cup {Event(pc.stmt)}
    /\ attempts' = IF pc.stmt \in PathLoads
                   THEN attempts \cup {[k |-> pc.k, call |-> pc.stmt,
                                        written |-> Written(config[pc.k].path)]}
                   ELSE attempts
    /\ UNCHANGED <<log, failed, datavars, config, trainvars, infvars>>

\* an exception handler that swallows the exception and runs the statement again
RaiseAndRetry ==
    /\ pc.phase = "in"
    /\ failed' = TRUE
    /\ active' = {}
    /\ pc' = [pc EXCEPT !.phase = "at"]
    /\ UNCHANGED <<log, attempts, datavars, config, trainvars, infvars>>

\* No statement of the notebook is inside a try: an exception raised by the call
\* in progress leaves the script where it is, and nothing runs after it.
Raise ==
    /\ pc.phase = "in"
    /\ failed' = TRUE
    /\ active' = {}
    /\ pc' = [pc EXCEPT !.phase = "raised"]
    /\ UNCHANGED <<log, attempts, datavars, config, trainvars, infvars>>

\* ------------------------------------------------------------ the data cells
\* dataset1 = load_dataset(...): the rows and the label names are the hub's
LoadDataset ==
    /\ At("load_dataset")
    /\ \E names \in NameLists :
         data' = [data EXCEPT ![pc.k].dataset =
                    [rows |-> {<<pc.k, i>> : i \in 1..MaxExamples},
                     label_column |-> "labels", names |-> names,
                     transform |-> "none"]]
    /\ Return("load_dataset") /\ Goto("split_dataset", pc.k)
    /\ UNCHANGED <<nEntries, split0, config, trainvars, infvars>>

SplitDataset ==
    /\ At("split_dataset")
    /\ LET ds == data[pc.k].dataset
           n == Cardinality(ds.rows)
       IN \E perm \in InjectiveSeqs(ds.rows, n) :
            LET s == split_dataset(ds, perm)
            IN /\ s.train.rows # {}
               /\ data' = [data EXCEPT ![pc.k].train = s.train, ![pc.k].test = s.test]
               /\ split0' = [split0 EXCEPT ![pc.k] = s]
    /\ Return("split_dataset") /\ Goto("rename_column", pc.k)
    /\ UNCHANGED <<nEntries, config, trainvars, infvars>>

\* dataset1 = dataset1.rename_column("labels", "label"): a new dataset object
\* bound to the name dataset1; the splits are other objects
rename_column(dataset, old, new) ==
    [dataset EXCEPT !.label_column = IF @ = old THEN new ELSE @]

RenameColumn ==
    /\ At("rename_column")
    /\ data[pc.k].dataset.label_column = "labels"
    /\ data' = [data EXCEPT ![pc.k].dataset = rename_column(@, "labels", "label")]
    /\ Return("rename_column") /\ Goto("create_label_mappings", pc.k)
    /\ UNCHANGED <<nEntries, split0, config, trainvars, infvars>>

CreateLabelMappings ==
    /\ At("create_label_mappings")
    /\ data[pc.k].dataset.label_column = "label"
    /\ LET m == create_label_mappings(data[pc.k].dataset)
       IN data' = [data EXCEPT ![pc.k].label2id = m.label2id,
                               ![pc.k].id2label = m.id2label]
    /\ Return("create_label_mappings")
    /\ IF pc.k < nEntries THEN Goto("load_dataset", pc.k + 1) ELSE Goto("config", 0)
    /\ UNCHANGED <<nEntries, split0, config, trainvars, infvars>>

\* config = {"model1": {...}, ...}: the splits by reference, the mappings, the
\* number of epochs and the path of each entry
ConfigEntry(k, epochs) ==
    [train_data |-> [ds |-> k, part |-> "train"],
     test_data |-> [ds |-> k, part |-> "test"],
     label2id |-> data[k].label2id, id2label |-> data[k].id2label,
     epochs |-> epochs, path |-> PathOf(k),
     inference_model |-> NoModel, image_processor |-> NoProcessor]

BuildConfig ==
    /\ At("config")
    /\ \E epochs \in [1..nEntries -> 1..MaxEpochs] :
         config' = [k \in 1..nEntries |-> ConfigEntry(k, epochs[k])]
    /\ Return("config") /\ Goto("image_processor", 0)
    /\ UNCHANGED <<datavars, trainvars, infvars>>

\* image_processor = AutoImageProcessor.from_pretrained(model_checkpoint)
LoadImageProcessor ==
    /\ At("image_processor")
    /\ image_processor' = [source |-> model_checkpoint]
    /\ Return("image_processor") /\ Goto("set_transform", 1)
    /\ UNCHANGED <<datavars, config, trainvars, local, predictions>>

\* Dataset.set_transform: the format of the object changes, its rows do not
set_transform(dataset, transform) == [dataset EXCEPT !.transform = transform]

SetTransform ==
    /\ At("set_transform")
    /\ LET tr == config[pc.k].train_data
           te == config[pc.k].test_data
       IN data' = [data EXCEPT
                     ![tr.ds][tr.part] = set_transform(@, "preprocess"),
                     ![te.ds][te.part] = set_transform(@, "preprocess")]
    /\ Return("set_transform")
    /\ IF pc.k < Len(config) THEN Goto("set_transform", pc.k + 1)
       ELSE Goto("num_train_epochs", 1)
    /\ UNCHANGED <<nEntries, split0, config, trainvars, infvars>>

\* ---------------------------------------------------------- the training cell
\* the assignment hoisted out of the loop: the first entry's epochs for all
SetEpochsOfFirstEntry ==
    /\ At("num_train_epochs")
    /\ training_arguments' =
         [training_arguments EXCEPT !.num_train_epochs = config[1].epochs]
    /\ Return("num_train_epochs") /\ Goto("get_base_model", pc.k)
    /\ UNCHANGED <<datavars, config, model, trainer, disk, reports, infvars>>

\* training_arguments.num_train_epochs = cfg["epochs"]
SetEpochs ==
    /\ At("num_train_epochs")
    /\ training_arguments' =
         [training_arguments EXCEPT !.num_train_epochs = config[pc.k].epochs]
    /\ Return("num_train_epochs") /\ Goto("get_base_model", pc.k)
    /\ UNCHANGED <<datavars, config, model, trainer, disk, reports, infvars>>

\* build_lora_model: model = get_base_model(label2id, id2label)
LoraGetBaseModel ==
    /\ At("get_base_model")
    /\ LET m == get_base_model(config[pc.k].label2id, config[pc.k].id2label)
       IN /\ model' = m
          /\ reports' = Append(reports, print_trainable_parameters(m, "Base model"))
    /\ Return("get_base_model") /\ Goto("get_peft_model", pc.k)
    /\ UNCHANGED <<datavars, config, training_arguments, trainer, disk, infvars>>

\* build_lora_model: lora_model = get_peft_model(model, config)
GetPeftModel ==
    /\ At("get_peft_model")
    /\ LET m == get_peft_model(model, lora_config)
       IN /\ model' = m
          /\ reports' = Append(reports, print_trainable_parameters(m, "LoRA"))
    /\ Return("get_peft_model") /\ Goto("Trainer", pc.k)
    /\ UNCHANGED <<datavars, config, training_arguments, trainer, disk, infvars>>

\* trainer = Trainer(lora_model, training_arguments, train_dataset=..., ...)
NewTrainer ==
    /\ At("Trainer")
    /\ trainer' = [NoTrainer EXCEPT !.train_dataset = config[pc.k].train_data,
                                    !.eval_dataset = config[pc.k].test_data,
                                    !.processor = image_processor]
    /\ Return("Trainer") /\ Goto("train", pc.k)
    /\ UNCHANGED <<datavars, config, training_arguments, model, disk, reports, infvars>>

\* save_strategy="epoch": the adapter goes to output_dir/checkpoint-<step>,
\* over whatever an earlier Trainer left under that name; written_by notes the
\* config entry whose Trainer wrote it (history)
save_checkpoint(dir, step, m, k) ==
    LET ckpt == [weights |-> AdapterStateDict(m), written_by |-> k]
    IN IF step <= Len(dir) THEN [dir EXCEPT ![step] = ckpt] ELSE Append(dir, ckpt)

\* trainer.train(), one epoch: data_collate reads example["pixel_values"] and
\* example["labels"]; the epoch ends with an evaluation on eval_dataset and a
\* checkpoint of the adapter under output_dir
TrainEpoch ==
    /\ At("train")
    /\ trainer.epoch < training_arguments.num_train_epochs
    /\ Deref(trainer.train_dataset).label_column = "labels"
    /\ Deref(trainer.train_dataset).transform = "preprocess"
    /\ LET m == [model EXCEPT !.params = Optimize(@)]
       IN /\ model' = m
          /\ trainer' = [trainer EXCEPT
                           !.epoch = @ + 1,
                           !.evaluated = Append(@, trainer.eval_dataset)]
          /\ disk' = [disk EXCEPT ![training_arguments.output_dir] =
                        save_checkpoint(@, trainer.epoch + 1, m, pc.k)]
    /\ UNCHANGED <<ctl, datavars, config, training_arguments, reports, infvars>>

\* the loop body without its trainer.evaluate line
TrainEndSkipEvaluate ==
    /\ At("train")
    /\ trainer.epoch >= training_arguments.num_train_epochs
    /\ \E best \in 1..trainer.epoch :
         LET checkpoint == disk[training_arguments.output_dir][best]
         IN /\ trainer' = [trainer EXCEPT !.best_model_checkpoint = checkpoint]
            /\ model' = [model EXCEPT !.params = LoadStateDict(@, checkpoint.weights)]
    /\ Return("train") /\ Goto("save_model", pc.k)
    /\ UNCHANGED <<datavars, config, training_arguments, disk, reports, infvars>>

\* trainer.train() returns: load_best_model_at_end reloads the adapter of the
\* checkpoint with the best accuracy among those this Trainer saved; the trainer
\* keeps what that checkpoint holds
TrainEnd ==
    /\ At("train")
    /\ trainer.epoch >= training_arguments.num_train_epochs
    /\ \E best \in 1..trainer.epoch :
         LET checkpoint == disk[training_arguments.output_dir][best]
         IN /\ trainer' = [trainer EXCEPT !.best_model_checkpoint = checkpoint]
            /\ model' = [model EXCEPT !.params = LoadStateDict(@, checkpoint.weights)]
    /\ Return("train") /\ Goto("evaluate", pc.k)
    /\ UNCHANGED <<datavars, config, training_arguments, disk, reports, infvars>>

\* evaluation_results = trainer.evaluate(cfg['test_data'])
Evaluate ==
    /\ At("evaluate")
    /\ Deref(config[pc.k].test_data).transform = "preprocess"
    /\ trainer' = [trainer EXCEPT !.evaluated = Append(@, config[pc.k].test_data)]
    /\ Return("evaluate") /\ Goto("save_model", pc.k)
    /\ UNCHANGED <<datavars, config, training_arguments, model, disk, reports, infvars>>

\* trainer.save_model(cfg["path"])
SaveModel ==
    /\ At("save_model")
    /\ disk' = [disk EXCEPT ![config[pc.k].path] = save_model(model, trainer.processor)]
    /\ Return("save_model") /\ Goto("print_model_size", pc.k)
    /\ UNCHANGED <<datavars, config, training_arguments, model, trainer, reports, infvars>>

\* print_model_size(cfg["path"]): os.scandir of the directory
PrintModelSize ==
    /\ At("print_model_size")
    /\ disk[config[pc.k].path].files # {}
    /\ Return("print_model_size")
    /\ IF pc.k < Len(config) THEN Goto("num_train_epochs", pc.k + 1)
       ELSE Goto("inference.get_base_model", 1)
    /\ UNCHANGED <<datavars, config, trainvars, infvars>>

\* --------------------------------------------------------- the inference cells
\* build_inference_model: model = get_base_model(label2id, id2label)
InferenceGetBaseModel ==
    /\ At("inference.get_base_model")
    /\ local' = get_base_model(config[pc.k].label2id, config[pc.k].id2label)
    /\ Return("inference.get_base_model") /\ Goto("PeftModel.from_pretrained", pc.k)
    /\ UNCHANGED <<datavars, config, trainvars, image_processor, predictions>>

\* build_inference_model returns PeftModel.from_pretrained(model, lora_adapter_path)
\* and the loop stores it in cfg["inference_model"]
LoadAdapter ==
    /\ At("PeftModel.from_pretrained")
    /\ Written(config[pc.k].path)
    /\ config' = [config EXCEPT ![pc.k].inference_model =
                    PeftFromPretrained(local, disk[config[pc.k].path])]
    /\ local' = NoModel
    /\ Return("PeftModel.from_pretrained")
    /\ Goto("AutoImageProcessor.from_pretrained", pc.k)
    /\ UNCHANGED <<datavars, trainvars, image_processor, predictions>>

\* cfg["image_processor"] = AutoImageProcessor.from_pretrained(cfg["path"])
LoadSavedProcessor ==
    /\ At("AutoImageProcessor.from_pretrained")
    /\ "preprocessor_config.json" \in disk[config[pc.k].path].files
    /\ config' = [config EXCEPT ![pc.k].image_processor =
                    [source |-> config[pc.k].path]]
    /\ Return("AutoImageProcessor.from_pretrained")
    /\ IF pc.k < Len(config) THEN Goto("inference.get_base_model", pc.k + 1)
       ELSE Goto("Image.open", 1)
    /\ UNCHANGED <<datavars, trainvars, infvars>>

\* samples: two images, both for "model1"
samples == <<[image |-> "chicken wings", model |-> "model1"],
             [image |-> "pizza", model |-> "model1"]>>
KeyIndex(key) == CHOOSE k \in 1..Len(ConfigKeys) : ConfigKeys[k] = key

\* image = Image.open(requests.get(sample["image"], stream=True).raw)
OpenImage ==
    /\ At("Image.open")
    /\ Return("Image.open") /\ Goto("predict", pc.k)
    /\ UNCHANGED <<datavars, config, trainvars, infvars>>

\* a head built with the default config, num_labels = 2, whatever id2label holds
NumLogitsDefault(m) == 2

\* outputs.logits: one logit per output of the classifier head
NumLogits(m) == ModuleAt(m.modules, <<0, "classifier", "weight">>).out_features
\* predict(image, model, image_processor): model.config.id2label[class_index],
\* class_index the position of the largest logit
predict(m, class_index) == m.id2label[class_index]

\* the loop body: the model and the processor of config[sample["model"]] are
\* passed to predict; id2label[class_index] raises KeyError off its keys
Predict ==
    /\ At("predict")
    /\ LET cfg == config[KeyIndex(samples[pc.k].model)]
           inference_model == cfg.inference_model
           processor == cfg.image_processor
       IN /\ inference_model.peft
          /\ image_processor' = processor
          /\ \E class_index \in 0..(NumLogits(inference_model) - 1) :
               /\ class_index \in DOMAIN inference_model.id2label
               /\ predictions' = Append(predictions,
                    [id2label |-> inference_model.id2label,
                     processor |-> processor,
                     logits |-> NumLogits(inference_model),
                     class_index |-> class_index,
                     prediction |-> predict(inference_model, class_index)])
    /\ Return("predict")
    /\ IF pc.k < Len(samples) THEN Goto("Image.open", pc.k + 1) ELSE Goto("done", 0)
    /\ UNCHANGED <<datavars, config, trainvars, local>>

\* ------------------------------------------------------------ specification
Init ==
    /\ nEntries \in 1..Len(ConfigKeys)
    /\ pc = Stmt("load_dataset", 1)
    /\ data = [k \in 1..nEntries |-> NoData]
    /\ split0 = [k \in 1..nEntries |-> [train |-> NoDataset, test |-> NoDataset]]
    /\ config = <<>>
    /\ log = <<>>
    /\ attempts = {}
    /\ active = {}
    /\ failed = FALSE
    /\ image_processor = NoProcessor
    /\ training_arguments = [output_dir |-> "./model-checkpoints", num_train_epochs |-> 3,
                             load_best_model_at_end |-> TRUE]
    /\ model = NoModel
    /\ trainer = NoTrainer
    /\ local = NoModel
    /\ disk = [p \in Paths \cup {"./model-checkpoints"} |->
                 IF p \in Paths THEN NoDir ELSE <<>>]
    /\ reports = <<>>
    /\ predictions = <<>>

Next ==
    \/ Call
    \/ Raise
    \/ LoadDataset
    \/ SplitDataset
    \/ RenameColumn
    \/ CreateLabelMappings
    \/ BuildConfig
    \/ LoadImageProcessor
    \/ SetTransform
    \/ SetEpochs
    \/ LoraGetBaseModel
    \/ GetPeftModel
    \/ NewTrainer
    \/ TrainEpoch
    \/ TrainEnd
    \/ Evaluate
    \/ SaveModel
    \/ PrintModelSize
    \/ InferenceGetBaseModel
    \/ LoadAdapter
    \/ LoadSavedProcessor
    \/ OpenImage
    \/ Predict

Spec == Init /\ [][Next]_vars

\* ------------------------------------------------------------------ claims
Done == pc.stmt = "done"
Count(seq, e) == Cardinality({i \in 1..Len(seq) : seq[i] = e})
\* the pipeline stages (a)..(f) of a config entry, by the call that performs each
Stages == <<"get_base_model", "get_peft_model", "train", "evaluate", "save_model",
            "PeftModel.from_pretrained">>
IsStageOf(e, k) == e.k = k /\ e.call \in Range(Stages)
StageLog(k) == LET Test(e) == IsStageOf(e, k) IN SelectSeq(log, Test)
\* every model object the script holds
AllModels == {model, local} \cup {config[k].inference_model : k \in DOMAIN config}
TargetedModules(m) == {x \in m.modules : x.name \in {"query", "value"}}

\* C1: for every config entry the stages that have run are, in this order, base
\* model load, adapter attach, training, evaluation, save, adapter reload; a
\* finished run has run all six for every entry; and every load from an entry's
\* path (inference model, image processor) was started after save_model wrote it.
C1_StagesInOrder ==
    /\ \A k \in 1..nEntries :
         LET ran == StageLog(k)
         IN /\ Len(ran) <= Len(Stages)
            /\ \A i \in 1..Len(ran) : ran[i].call = Stages[i]
            /\ Done => Len(ran) = Len(Stages)
    /\ \A a \in attempts : a.written

C1_Witness ==
    /\ Done /\ nEntries = 2
    /\ \E a \in attempts : a.k = 2 /\ a.call = "AutoImageProcessor.from_pretrained"

\* C2 (as stated): in the model build_lora_model returns, every trainable
\* parameter is a low-rank matrix on a query or value layer.
C2_OnlyLowRankTrainable ==
    model.peft =>
        \A key \in DOMAIN model.params :
            model.params[key].requires_grad =>
                IsLoraKey(key) /\ key[2] \in {"query", "value"}

\* C2 (amended): in the model build_lora_model returns, the trainable parameters
\* are exactly the low-rank matrices on the query and value layers and the copy of
\* the classifier head that modules_to_save adds; every other parameter is frozen.
C2_TrainableIsAdapter ==
    model.peft =>
        \A key \in DOMAIN model.params :
            model.params[key].requires_grad <=>
                \/ IsLoraKey(key) /\ key[2] \in {"query", "value"}
                \/ IsSavedModuleKey(key) /\ key[2] = "classifier"

C2_Witness ==
    /\ model.peft /\ pc.stmt = "Trainer"
    /\ model.params[<<0, "classifier", "modules_to_save.weight">>].requires_grad
    /\ model.params[<<1, "query", "lora_A">>].requires_grad
    /\ ~model.params[<<1, "query", "weight">>].requires_grad

\* C3: in every model the script holds (the trained one, the inference ones),
\* every parameter of the base model has the value the base model was loaded
\* with; only parameters the adapter added have moved.
C3_BaseWeightsFrozen ==
    \A m \in AllModels :
        \A key \in DOMAIN m.params :
            \/ IsAdapterKey(key)
            \/ m.params[key].value = InitialValue(key)

C3_Witness ==
    /\ Done
    /\ model.params[<<1, "value", "lora_B">>].value = "trained"
    /\ \A k \in DOMAIN config :
         /\ config[k].inference_model.params[<<1, "value", "lora_B">>].value = "trained"
         /\ config[k].inference_model.params[<<1, "value", "weight">>].value
              = model_checkpoint

\* C4: once create_label_mappings has run for a dataset, id2label is defined on
\* 0..n-1 and label2id on the class names, and each is the inverse of the other.
C4_LabelMappingsInverse ==
    \A k \in 1..nEntries :
        DOMAIN data[k].id2label # {} =>
            LET names == data[k].dataset.names
                label2id == data[k].label2id
                id2label == data[k].id2label
            IN /\ DOMAIN label2id = Range(names)
               /\ DOMAIN id2label = 0..(Len(names) - 1)
               /\ \A name \in Range(names) :
                     label2id[name] \in DOMAIN id2label /\ id2label[label2id[name]] = name
               /\ \A i \in 0..(Len(names) - 1) :
                     id2label[i] \in DOMAIN label2id /\ label2id[id2label[i]] = i

C4_Witness ==
    /\ Count(log, [k |-> 1, call |-> "create_label_mappings"]) > 0
    /\ data[1].dataset.names = <<"dog", "cat">>
    /\ data[1].label2id["cat"] = 1

\* C5 (as stated): a written config path holds the low-rank adapter weights and
\* the processor configuration, and no other model weights.
C5_OnlyLowRankSaved ==
    \A p \in Paths :
        Written(p) =>
            /\ "preprocessor_config.json" \in disk[p].files
            /\ \A key \in DOMAIN disk[p].weights : IsLoraKey(key)

\* C5 (amended): a written config path holds the processor configuration, the
\* low-rank adapter weights of every query and value layer, and the copy of the
\* classifier head kept by modules_to_save; it holds no frozen weight of the
\* foundation model.
C5_AdapterAndHeadSaved ==
    \A p \in Paths :
        Written(p) =>
            /\ "preprocessor_config.json" \in disk[p].files
            /\ disk[p].processor = [source |-> model_checkpoint]
            /\ \A key \in DOMAIN disk[p].weights :
                 \/ IsLoraKey(key) /\ key[2] \in {"query", "value"}
                 \/ IsSavedModuleKey(key) /\ key[2] = "classifier"
            /\ \A l \in 1..NumLayers, n \in {"query", "value"}, t \in {"lora_A", "lora_B"} :
                 <<l, n, t>> \in DOMAIN disk[p].weights
            /\ <<0, "classifier", "modules_to_save.weight">> \in DOMAIN disk[p].weights

C5_Witness ==
    /\ Written(PathOf(1)) /\ Written(PathOf(2))
    /\ disk[PathOf(2)].weights[<<1, "query", "lora_A">>].value = "trained"

\* C6: once split_dataset has run for a dataset, its train and test sets are
\* disjoint, together they hold every example of the dataset, and both hold the
\* examples split_dataset put there, whatever stage has run since.
C6_SplitIsFixedPartition ==
    \A k \in 1..nEntries :
        split0[k].train.rows # {} =>
            /\ data[k].train.rows \cap data[k].test.rows = {}
            /\ data[k].train.rows \cup data[k].test.rows = data[k].dataset.rows
            /\ data[k].train.rows = split0[k].train.rows
            /\ data[k].test.rows = split0[k].test.rows
            /\ data[k].train.rows # {} /\ data[k].test.rows # {}

C6_Witness ==
    /\ Done
    /\ \A k \in 1..nEntries : data[k].train.transform = "preprocess"
    /\ data[1].test.rows = {<<1, 2>>} /\ data[1].train.rows = {<<1, 1>>, <<1, 3>>}

\* C7: no step is taken after a failure, and the step that raises changes
\* nothing but the script's end: the failed call is not logged as returned, not
\* entered again, and the script stays at the statement that raised.
C7_FailureEndsScript ==
    [][/\ ~failed
       /\ failed' => /\ log' = log
                     /\ pc'.stmt = pc.stmt /\ pc'.k = pc.k /\ pc'.phase = "raised"
                     /\ disk' = disk /\ config' = config /\ model' = model]_vars

C7_Witness ==
    /\ failed /\ pc.stmt = "train" /\ pc.k = 2 /\ trainer.epoch = 1
    /\ Count(log, [k |-> 2, call |-> "train"]) = 0

\* C8: at most one call is in progress at any moment; a stage in progress has
\* not run before for its entry; no stage has run twice for an entry; and a
\* finished run has run each stage exactly once for every entry.
C8_OneStageAtATime ==
    /\ Cardinality(active) <= 1
    /\ \A e \in active : e.call \in Range(Stages) => Count(log, e) = 0
    /\ \A k \in 1..nEntries : \A i \in 1..Len(Stages) :
         LET n == Count(log, [k |-> k, call |-> Stages[i]])
         IN n <= 1 /\ (Done => n = 1)

C8_Witness ==
    /\ active = {[k |-> 2, call |-> "save_model"]}
    /\ Count(log, [k |-> 1, call |-> "save_model"]) = 1

\* C9: over the build_inference_model calls of a run, the base model checkpoint
\* is loaded at most once.
C9_BaseLoadedOnceForInference ==
    Cardinality({i \in 1..Len(log) : log[i].call = "inference.get_base_model"}) <= 1

\* C10: in every model that carries the adapter, each query and value layer has
\* two factors, lora_A of shape 16 x in_features and lora_B of shape
\* out_features x 16, whose product has the shape of the layer's frozen weight.
C10_FactorShapes ==
    \A m \in AllModels :
        m.peft =>
            \A x \in TargetedModules(m) :
                LET A == m.params[<<x.layer, x.name, "lora_A">>].shape
                    B == m.params[<<x.layer, x.name, "lora_B">>].shape
                    W == m.params[<<x.layer, x.name, "weight">>].shape
                IN /\ A = <<LoraRank, x.in_features>>
                   /\ B = <<x.out_features, LoraRank>>
                   /\ B[2] = A[1]
                   /\ <<B[1], A[2]>> = W

C10_Witness ==
    /\ model.peft
    /\ \E k \in DOMAIN config : config[k].inference_model.peft
    /\ model.params[<<1, "value", "lora_A">>].shape = <<16, 768>>

\* C11: predict was called, for each sample handled so far, with the inference
\* model and the image processor of the config entry the sample's "model" key
\* names; what it returned is that entry's id2label at the index chosen among
\* the logits, a class name of the entry's dataset; and the model has no more
\* logits than the entry's mapping has ids.
C11_PredictionIsEntryLabel ==
    \A i \in 1..Len(predictions) :
        \E e \in DOMAIN config :
            /\ ConfigKeys[e] = samples[i].model
            /\ predictions[i].id2label = config[e].id2label
            /\ predictions[i].id2label = config[e].inference_model.id2label
            /\ predictions[i].processor = config[e].image_processor
            /\ predictions[i].processor = [source |-> PathOf(e)]
            /\ predictions[i].logits <= Cardinality(DOMAIN config[e].id2label)
            /\ predictions[i].class_index \in 0..(predictions[i].logits - 1)
            /\ predictions[i].prediction = config[e].id2label[predictions[i].class_index]
            /\ predictions[i].prediction \in Range(data[e].dataset.names)

C11_Witness ==
    /\ Done /\ nEntries = 2 /\ Len(predictions) = Len(samples)
    /\ data[1].dataset.names = <<"dog", "cat">>
    /\ data[2].dataset.names = <<"cat">>
    /\ predictions[1].prediction = "dog" /\ predictions[2].prediction = "cat"

\* the statements of the training loop before and after Trainer(...) returns
BeforeTrainer == {"num_train_epochs", "get_base_model", "get_peft_model", "Trainer"}
WithTrainer == {"train", "evaluate", "save_model", "print_model_size"}
\* the config entry the current trainer was built for (0: there is none yet)
TrainerEntry ==
    IF pc.stmt \in WithTrainer THEN pc.k
    ELSE IF pc.stmt \in BeforeTrainer THEN pc.k - 1
    ELSE IF trainer = NoTrainer THEN 0 ELSE Len(config)
Returned(k, call) == Count(log, [k |-> k, call |-> call]) > 0

\* C12: the trainer of a config entry holds that entry's train_data and
\* test_data and starts from a model built for that entry with nothing trained
\* in it; while it is in use the shared training_arguments hold that entry's
\* epochs; every evaluation is on that entry's test_data; train returns after
\* exactly that entry's epochs, with the best checkpoint one this trainer wrote;
\* and save_model writes that entry's path, with that entry's head, and no other.
C12_EntryUsesOwnSettings ==
    /\ pc.stmt \in WithTrainer \cup {"get_base_model", "get_peft_model", "Trainer"} =>
         training_arguments.num_train_epochs = config[pc.k].epochs
    /\ pc.stmt \in {"get_peft_model", "Trainer"} \/ (pc.stmt = "train" /\ trainer.epoch = 0) =>
         /\ model.id2label = config[pc.k].id2label
         /\ \A key \in DOMAIN model.params : model.params[key].value # "trained"
    /\ LET e == TrainerEntry
       IN e > 0 =>
            /\ trainer.train_dataset = [ds |-> e, part |-> "train"]
            /\ trainer.train_dataset = config[e].train_data
            /\ trainer.eval_dataset = config[e].test_data
            /\ \A i \in 1..Len(trainer.evaluated) :
                 trainer.evaluated[i] = [ds |-> e, part |-> "test"]
            /\ trainer.epoch <= config[e].epochs
            /\ Returned(e, "train") =>
                 /\ trainer.epoch = config[e].epochs
                 /\ trainer.best_model_checkpoint.written_by = e
                 /\ \E step \in 1..config[e].epochs :
                      disk[training_arguments.output_dir][step] = trainer.best_model_checkpoint
            /\ Returned(e, "evaluate") => Len(trainer.evaluated) = config[e].epochs + 1
    /\ \A k \in DOMAIN config :
         /\ Written(PathOf(k)) <=> Returned(k, "save_model")
         /\ Written(PathOf(k)) =>
              disk[PathOf(k)].weights[<<0, "classifier", "modules_to_save.weight">>].shape
                = <<Cardinality(DOMAIN config[k].id2label), Hidden>>

C12_Witness ==
    /\ Done /\ nEntries = 2
    /\ config[1].epochs = 2 /\ config[2].epochs = 1
    /\ Cardinality(DOMAIN config[1].id2label) = 1
    /\ Cardinality(DOMAIN config[2].id2label) = 2
    /\ trainer.epoch = 1 /\ trainer.best_model_checkpoint.written_by = 2
    /\ Len(disk[training_arguments.output_dir]) = 2
    /\ disk[training_arguments.output_dir][2].written_by = 1

\* the sizes of the model of a config entry with n labels, counted by hand
HeadSize(n) == Hidden * n + n
BaseSize(n) == Hidden * Hidden + NumLayers * 4 * (Hidden * Hidden + Hidden) + HeadSize(n)
LoraSize == NumLayers * 2 * 2 * LoraRank * Hidden

\* C13: every report of print_trainable_parameters has 0 <= trainable <= total;
\* for the base model of an entry both are the size of all its parameters; for
\* the LoRA model total adds the factors and the head copy, trainable is the
\* size of those alone, and it is strictly smaller than the base model's.
C13_ReportedCounts ==
    /\ \A i \in 1..Len(reports) :
         0 <= reports[i].trainable /\ reports[i].trainable <= reports[i].parameters
    /\ \A e \in DOMAIN config :
         LET n == Cardinality(DOMAIN config[e].id2label)
         IN /\ 2 * e - 1 <= Len(reports) =>
                 /\ reports[2 * e - 1].label = "Base model"
                 /\ reports[2 * e - 1].parameters = BaseSize(n)
                 /\ reports[2 * e - 1].trainable = BaseSize(n)
            /\ 2 * e <= Len(reports) =>
                 /\ reports[2 * e].label = "LoRA"
                 /\ reports[2 * e].parameters = BaseSize(n) + LoraSize + HeadSize(n)
                 /\ reports[2 * e].trainable = LoraSize + HeadSize(n)
                 /\ reports[2 * e].trainable < reports[2 * e - 1].trainable

C13_Witness ==
    /\ Len(reports) = 4
    /\ reports[2].label = "LoRA" /\ reports[4].label = "LoRA"
    /\ reports[4].trainable > 0
    /\ reports[4].trainable < reports[3].trainable
    /\ reports[2].trainable # reports[4].trainable
====
